---- MODULE Spec2Model ----
(***************************************************************************)
(* A model of the sherpa-rs binding layer for source separation            *)
(* (crates/sherpa-rs/src/source_separation.rs) and ZipVoice TTS            *)
(* (crates/sherpa-rs/src/tts/zipvoice.rs).                                 *)
(*                                                                         *)
(* The native library is a black box behind a C interface.  What a native  *)
(* call returns is an input of the model.  With native = "any" a call may  *)
(* return anything its C signature allows; with native = "contract" it     *)
(* returns what section 4 and 6 of the specification say it returns.       *)
(***************************************************************************)
EXTENDS Integers, Sequences, FiniteSets, TLC

\* ---------------------------------------------------------------- bounds
\* Native handles the model hands out (1..MaxHandles); 0 is the null pointer.
MaxHandles == 2
\* Largest sample count a native generated-audio result reports.
MaxN == 2
\* Native sample rates range over -MaxRate..MaxRate.
MaxRate == 2
\* Largest stem count a native result reports, and longest native stem array.
MaxStems == 2
\* Threads sharing the two handles in SpecThreads.
NThreads == 2

VARIABLES
    native,      \* "any" | "contract": how the native library behaves
    obj,         \* obj[c]: the binding object of component c (state, handle)
    nextHandle,  \* the next address the native library hands out
    destroys,    \* destroys[h]: native handle-destroy calls made on pointer h
    model,       \* model[h]: what the native model behind handle h reports
    lastOp,      \* the last binding operation: what it did and returned
    pc,          \* pc[t]: the call thread t has in flight (SpecThreads)
    hazards      \* what the last step let reach the native library at once

vars == <<native, obj, nextHandle, destroys, model, lastOp, pc, hazards>>

Null == 0
Comps == {"ss", "tts"}
Handles == 1..MaxHandles
Threads == 1..NThreads
Idle == [fn |-> "idle"]

\* ------------------------------------------------------------- integers
I32Max == 2147483647
I32Min == (0 - I32Max) - 1

\* `x as i32` of a usize: the low 32 bits read as two's complement.  The
\* lengths of the model stay below 2^31, where the cast changes nothing.
AsI32(x) == IF x <= I32Max THEN x ELSE (x - I32Max) - I32Max - 2

\* `x as u32` of an i32: the same 32 bits read unsigned.  The u32 is written
\* [hi, lo] for hi * 2^32 + lo: a negative x becomes 2^32 + x.
AsU32(x) == [hi |-> IF x < 0 THEN 1 ELSE 0, lo |-> x]

\* `x as usize` of an i32: sign-extended and read unsigned.  A negative x
\* becomes 2^64 + x, longer than any buffer; the model writes I32Max for it.
AsUsize(x) == IF x < 0 THEN I32Max ELSE x

Abs(x) == IF x < 0 THEN 0 - x ELSE x

\* i32 `/` panics on a zero divisor and on i32::MIN / -1.
DivPanics(a, b) == b = 0 \/ (a = I32Min /\ b = 0 - 1)

\* i32 `/`: the quotient rounded toward zero.
TruncDiv(a, b) ==
    LET q == Abs(a) \div Abs(b)
    IN  IF (a < 0) = (b < 0) THEN q ELSE 0 - q

\* The mathematical floor of a / b, b # 0.
FloorDiv(a, b) ==
    LET q == Abs(a) \div Abs(b)
    IN  IF (a < 0) = (b < 0) THEN q
        ELSE IF Abs(a) % Abs(b) = 0 THEN 0 - q ELSE 0 - q - 1

\* ------------------------------------------------------- native buffers
\* The n samples of a native buffer; `to_vec` copies them one by one.
NativeSamples(n) == [k \in 1..n |-> k]
ToVec(buf) == [k \in 1..Len(buf) |-> buf[k]]

\* ------------------------------------------------------ native library
\* What the model behind a freshly created handle reports.  Under the
\* contract it is a positive stem count and a positive rate, fixed for the
\* handle's life; otherwise the queries below return anything.
NoModel == [stems |-> 1, rate |-> 1]
ModelChoices ==
    IF native = "contract" THEN [stems : 1..MaxStems, rate : {MaxRate}] ELSE {NoModel}

\* A native create call returns null or a fresh handle.
NativeCreateResults == {Null, nextHandle}

\* Whether pointer h is a handle the native library created and has not destroyed.
HandleReady(h) == h # Null /\ h < nextHandle /\ destroys[h] = 0

\* What get-sample-rate and get-stem-count return for handle h.
NativeSampleRates(h) ==
    IF native = "contract" /\ h # Null THEN {model[h].rate} ELSE (0 - 1)..MaxRate
NativeNumStems(h) ==
    IF native = "contract" /\ h # Null THEN {model[h].stems} ELSE (0 - 1)..MaxStems

\* One entry of a native stem array: a sample count that is negative, zero or
\* positive, and a sample pointer that is null or not.
StemLens == {0 - 1, 0, 1}
StemDescs ==
    { [n |-> n, samples_null |-> sn, sample_rate |-> 1, num_channels |-> 1] :
        n \in StemLens, sn \in BOOLEAN }
SoundStem == [n |-> 1, samples_null |-> FALSE, sample_rate |-> 1, num_channels |-> 1]
\* The native stem arrays of the model: up to MaxStems entries, all sound
\* but at most one, which is any descriptor at all.
StemArrays ==
    UNION { { [i \in 1..k |-> IF i = j THEN d ELSE SoundStem] :
                j \in 1..k, d \in StemDescs } : k \in 0..MaxStems } \cup {<<>>}
NullResult == [null |-> TRUE]

\* What process-separation returns for handle h: null, or a result struct.
NativeProcessResults(h) ==
    IF native = "contract" /\ h # Null
    THEN {NullResult} \cup
         { [null |-> FALSE, num_stems |-> model[h].stems, stems_null |-> FALSE,
            stems |-> a] :
             a \in [1..model[h].stems ->
                      { [n |-> n, samples_null |-> FALSE,
                         sample_rate |-> model[h].rate, num_channels |-> ch] :
                          n \in {0, 1}, ch \in {2} }] }
    ELSE {NullResult} \cup
         { [null |-> FALSE, num_stems |-> k, stems_null |-> FALSE, stems |-> a] :
             k \in (0 - 1)..MaxStems, a \in StemArrays } \cup
         { [null |-> FALSE, num_stems |-> k, stems_null |-> TRUE, stems |-> <<>>] :
             k \in (0 - 1)..MaxStems }

\* What generate-zipvoice returns for handle h: null, or a generated audio.
NativeGenerateResults(h) ==
    IF native = "contract" /\ h # Null
    THEN {NullResult} \cup
         { [null |-> FALSE, n |-> n, samples_null |-> FALSE,
            sample_rate |-> model[h].rate] : n \in 0..MaxN }
    ELSE {NullResult} \cup
         { [null |-> FALSE, n |-> n, samples_null |-> sn, sample_rate |-> r] :
             n \in (0 - 1)..MaxN, sn \in BOOLEAN, r \in (0 - MaxRate)..MaxRate }

\* What a read through a dangling or out-of-range stem pointer may find.
GarbageStems ==
    { [n |-> n, samples_null |-> FALSE, sample_rate |-> 0, num_channels |-> 0] :
        n \in {0, 1} }

\* ------------------------------------------------------- configuration
Paths == {"", "m.onnx"}
NoneOpt == [some |-> FALSE]
SpleeterOpts ==
    {NoneOpt} \cup
    { [some |-> TRUE, vocals |-> v, accompaniment |-> a] : v \in Paths, a \in Paths }
UvrOpts == {NoneOpt} \cup { [some |-> TRUE, model |-> m] : m \in Paths }
\* The callers of the model leave provider and debug at their defaults.
SourceSeparationConfigs ==
    [spleeter : SpleeterOpts, uvr : UvrOpts, num_threads : {0, 4},
     provider : {NoneOpt}, debug : {FALSE}]

\* crate::get_default_provider and crate::utils::cstring_from_str.
get_default_provider == "cpu"
cstring_from_str(s) == s
\* Path::to_string_lossy().into_owned() of a Unicode path.
ToStringLossy(p) == p

\* The native configuration SourceSeparation::new builds.
MarshalSSConfig(config) ==
    [vocals        |-> IF config.spleeter.some
                       THEN cstring_from_str(config.spleeter.vocals)
                       ELSE cstring_from_str(""),
     accompaniment |-> IF config.spleeter.some
                       THEN cstring_from_str(config.spleeter.accompaniment)
                       ELSE cstring_from_str(""),
     uvr_model     |-> IF config.uvr.some
                       THEN cstring_from_str(config.uvr.model)
                       ELSE cstring_from_str(""),
     num_threads   |-> IF config.num_threads > 0 THEN config.num_threads ELSE 1,
     debug         |-> IF config.debug THEN 1 ELSE 0,
     provider      |-> cstring_from_str(IF config.provider.some
                                        THEN config.provider.value
                                        ELSE get_default_provider)]

\* --------------------------------------------------------- borrow rules
\* A create that took &self like the methods of SourceSeparation.
ReceiverAllShared(c, fn) == "shared"

\* The receiver each method takes: "mut" is &mut self, "shared" is &self.
Receiver(c, fn) == IF c = "tts" /\ fn = "create" THEN "mut" ELSE "shared"
Methods(c) ==
    IF c = "ss" THEN {"get_sample_rate", "get_num_stems", "process"} ELSE {"create"}

InFlight(t, c) == pc[t].fn # "idle" /\ pc[t].comp = c
\* No call borrows the object of component c.
NoBorrow(c) == \A t \in Threads : ~InFlight(t, c)

\* ------------------------------------------------------ SourceSeparation
\* Whether SourceSeparation::new hands the caller an object for native handle ss.
SSNewOk(ss) == ss # Null

\* The program runs until undefined behaviour stops it.
Running == lastOp.outcome # "abort"

\* The native library creates a handle: it is fresh, with a model behind it.
NativeCreate(h) ==
    IF h = Null
    THEN UNCHANGED <<nextHandle, model>>
    ELSE /\ nextHandle' = nextHandle + 1
         /\ \E m \in ModelChoices : model' = [model EXCEPT ![h] = m]

\* SourceSeparation::new: marshal, create, fail on a null handle.
SSNew(entry, config) ==
    /\ Running
    /\ obj["ss"].state # "live"
    /\ nextHandle <= MaxHandles
    /\ \E ss \in NativeCreateResults :
         /\ lastOp' = [fn |-> "new", comp |-> "ss", entry |-> entry,
                       c_config |-> MarshalSSConfig(config), ret |-> ss,
                       outcome |-> IF SSNewOk(ss) THEN "ok" ELSE "err"]
         /\ NativeCreate(ss)
         /\ obj' = IF SSNewOk(ss)
                   THEN [obj EXCEPT !["ss"] = [state |-> "live", handle |-> ss]]
                   ELSE obj
    /\ UNCHANGED <<native, destroys, pc, hazards>>

New == \E config \in SourceSeparationConfigs : SSNew("new", config)

\* new_spleeter and new_uvr overwrite one family of the configuration they
\* are given and pass the rest on as it is.
NewSpleeter ==
    \E vocals_model \in Paths, accompaniment_model \in Paths,
       config \in { c \in SourceSeparationConfigs : ~c.spleeter.some } :
        SSNew("new_spleeter",
              [config EXCEPT !.spleeter =
                  [some |-> TRUE, vocals |-> ToStringLossy(vocals_model),
                   accompaniment |-> ToStringLossy(accompaniment_model)]])

NewUvr ==
    \E uvr_model \in Paths,
       config \in { c \in SourceSeparationConfigs : ~c.uvr.some } :
        SSNew("new_uvr",
              [config EXCEPT !.uvr =
                  [some |-> TRUE, model |-> ToStringLossy(uvr_model)]])

\* SourceSeparation::get_sample_rate, once the native call was issued.
GetSampleRateReturn(h, hready) ==
    \E v \in NativeSampleRates(h) :
        lastOp' = [fn |-> "get_sample_rate", comp |-> "ss", handle |-> h,
                   hready |-> hready, outcome |-> "ok", value |-> v]

\* SourceSeparation::get_num_stems, once the native call was issued.
GetNumStemsReturn(h, hready) ==
    \E v \in NativeNumStems(h) :
        lastOp' = [fn |-> "get_num_stems", comp |-> "ss", handle |-> h,
                   hready |-> hready, outcome |-> "ok", value |-> v]

\* A loop that stops one stem early.
LoopCountShort(res) == IF res.num_stems < 1 THEN 0 ELSE res.num_stems - 1

\* `for i in 0..num_stems`: the number of iterations.
LoopCount(res) == IF res.num_stems < 0 THEN 0 ELSE res.num_stems

\* Iteration i dereferences stems_ptr.offset(i): outside the native array when
\* the array is null or shorter than the reported count.
StemReadOutside(res, i) == res.stems_null \/ i >= Len(res.stems)

\* The samples the native buffer of stem s holds.
NativeBufferLen(s) == IF s.n < 0 THEN 0 ELSE s.n

\* slice::from_raw_parts(stem.samples, stem.n as usize) is defined only for a
\* non-null pointer and a length the buffer has.
SamplesReadOutside(s) == s.samples_null \/ AsUsize(s.n) > NativeBufferLen(s)

UBAt(res, i) ==
    StemReadOutside(res, i) \/ SamplesReadOutside(res.stems[i + 1])

\* What iteration i works on: the native entry, or what the stray read finds.
StemRead(res, i, g) ==
    IF StemReadOutside(res, i) THEN g
    ELSE IF SamplesReadOutside(res.stems[i + 1])
         THEN [res.stems[i + 1] EXCEPT !.n = g.n]
         ELSE res.stems[i + 1]

\* stems.push(SeparatedStem { .. }) for descriptor s.
SeparatedStem(s) ==
    [samples |-> ToVec(NativeSamples(AsUsize(s.n))),
     sample_rate |-> s.sample_rate, num_channels |-> s.num_channels]

Copies(k) == [i \in 1..k |-> "copy"]
MinOf(S) == CHOOSE x \in S : \A y \in S : x <= y

\* The body of SourceSeparation::process after the native call returned res.
\* Where the loop reads outside native memory the behaviour is undefined: the
\* build either stops there (abort) or carries on with what it read (g).
ProcessRun(res, g, abort) ==
    IF res.null
    THEN [outcome |-> "err", events |-> <<"process">>, ub |-> FALSE, value |-> <<>>]
    ELSE LET count == LoopCount(res)
             bad   == { i \in 0..(count - 1) : UBAt(res, i) }
         IN  IF bad # {} /\ abort
             THEN [outcome |-> "abort",
                   events  |-> <<"process">> \o Copies(MinOf(bad)),
                   ub      |-> TRUE, value |-> <<>>]
             ELSE [outcome |-> "ok",
                   events  |-> <<"process">> \o Copies(count) \o <<"destroy_result">>,
                   ub      |-> bad # {},
                   value   |-> [i \in 1..count |->
                                  SeparatedStem(StemRead(res, i - 1, g))]]

\* SourceSeparation::process, once the native call was issued.
ProcessReturn(h, hready) ==
    \E res \in NativeProcessResults(h), g \in GarbageStems, abort \in BOOLEAN :
        LET run == ProcessRun(res, g, abort)
        IN  lastOp' = [fn |-> "process", comp |-> "ss", handle |-> h,
                       hready |-> hready, res |-> res, outcome |-> run.outcome,
                       events |-> run.events, ub |-> run.ub, value |-> run.value]

GetSampleRate ==
    /\ Running
    /\ obj["ss"].state = "live"
    /\ GetSampleRateReturn(obj["ss"].handle, HandleReady(obj["ss"].handle))
    /\ UNCHANGED <<native, obj, nextHandle, destroys, model, pc, hazards>>

GetNumStems ==
    /\ Running
    /\ obj["ss"].state = "live"
    /\ GetNumStemsReturn(obj["ss"].handle, HandleReady(obj["ss"].handle))
    /\ UNCHANGED <<native, obj, nextHandle, destroys, model, pc, hazards>>

Process ==
    /\ Running
    /\ obj["ss"].state = "live"
    /\ ProcessReturn(obj["ss"].handle, HandleReady(obj["ss"].handle))
    /\ UNCHANGED <<native, obj, nextHandle, destroys, model, pc, hazards>>

\* ----------------------------------------------------------- ZipVoiceTts
ZipVoiceTtsConfigs == [tokens : Paths, lexicon : Paths]

\* Whether ZipVoiceTts::new hands the caller an object for native handle tts.
TtsNewOk(tts) == TRUE

\* ZipVoiceTts::new: marshal, create, wrap whatever came back.
TtsNew ==
    /\ Running
    /\ obj["tts"].state # "live"
    /\ nextHandle <= MaxHandles
    /\ \E config \in ZipVoiceTtsConfigs, tts \in NativeCreateResults :
         /\ lastOp' = [fn |-> "new", comp |-> "tts", entry |-> "new",
                       c_config |-> [tokens  |-> cstring_from_str(config.tokens),
                                     lexicon |-> cstring_from_str(config.lexicon)],
                       ret |-> tts,
                       outcome |-> IF TtsNewOk(tts) THEN "ok" ELSE "err"]
         /\ NativeCreate(tts)
         /\ obj' = IF TtsNewOk(tts)
                   THEN [obj EXCEPT !["tts"] = [state |-> "live", handle |-> tts]]
                   ELSE obj
    /\ UNCHANGED <<native, destroys, pc, hazards>>

\* A validation that asks for a sample pointer only when there are samples.
CreateValidateLax(audio) ==
    IF audio.null THEN "audio is null"
    ELSE IF audio.n < 0 THEN "no samples found"
    ELSE IF audio.samples_null /\ audio.n > 0 THEN "audio samples are null"
    ELSE "valid"

\* The checks ZipVoiceTts::create makes on the native result, in order.
CreateValidate(audio) ==
    IF audio.null THEN "audio is null"
    ELSE IF audio.n < 0 THEN "no samples found"
    ELSE IF audio.samples_null THEN "audio samples are null"
    ELSE "valid"

NoAudio == [samples |-> <<>>, sample_rate |-> AsU32(0), duration |-> 0]

\* `(samples.len() as i32) / sample_rate`.
Duration(len, sample_rate) == TruncDiv(AsI32(len), sample_rate)

\* The body of ZipVoiceTts::create after the native call returned audio.
CreateRun(audio) ==
    IF CreateValidate(audio) # "valid"
    THEN [outcome |-> "err", msg |-> CreateValidate(audio),
          events |-> <<"generate">>, value |-> NoAudio]
    ELSE LET samples     == ToVec(NativeSamples(AsUsize(audio.n)))
             sample_rate == audio.sample_rate
         IN  IF DivPanics(AsI32(Len(samples)), sample_rate)
             THEN [outcome |-> "panic", msg |-> "attempt to divide by zero",
                   events |-> <<"generate", "copy">>, value |-> NoAudio]
             ELSE [outcome |-> "ok", msg |-> "",
                   events |-> <<"generate", "copy", "destroy_audio">>,
                   value |-> [samples     |-> samples,
                              sample_rate |-> AsU32(sample_rate),
                              duration    |-> Duration(Len(samples), sample_rate)]]

\* ZipVoiceTts::create, once the native call was issued.
CreateReturn(h, hready) ==
    \E audio \in NativeGenerateResults(h) :
        LET run == CreateRun(audio)
        IN  lastOp' = [fn |-> "create", comp |-> "tts", handle |-> h,
                       hready |-> hready, res |-> audio, outcome |-> run.outcome,
                       msg |-> run.msg, events |-> run.events, value |-> run.value]

Create ==
    /\ Running
    /\ obj["tts"].state = "live"
    /\ CreateReturn(obj["tts"].handle, HandleReady(obj["tts"].handle))
    /\ UNCHANGED <<native, obj, nextHandle, destroys, model, pc, hazards>>

\* ------------------------------------------------------------------ Drop
\* A drop that forgets the native destroy call.
NativeDestroyLeak(d, h) == d

\* SherpaOnnxDestroyOfflineSourceSeparation / SherpaOnnxDestroyOfflineTts on
\* pointer h.  The native library deletes what h points to; deleting null
\* does nothing.
NativeDestroy(d, h) == IF h = Null THEN d ELSE [d EXCEPT ![h] = @ + 1]

\* Dropping a value needs it unborrowed: no call on it is still running.
CanDrop(c) == NoBorrow(c)

\* impl Drop: the owner's scope ends and the handle is destroyed.
Drop(c) ==
    /\ Running
    /\ obj[c].state = "live"
    /\ CanDrop(c)
    /\ destroys' = NativeDestroy(destroys, obj[c].handle)
    /\ obj' = [obj EXCEPT ![c] = [state |-> "dropped", handle |-> @.handle]]
    /\ lastOp' = [fn |-> "drop", comp |-> c, handle |-> obj[c].handle,
                  outcome |-> "ok"]
    /\ hazards' = { [kind |-> "drop_in_flight", comp |-> c, fns |-> {pc[t].fn}] :
                      t \in { u \in Threads : InFlight(u, c) } }
    /\ UNCHANGED <<native, nextHandle, model, pc>>

DropSS == Drop("ss")
DropTts == Drop("tts")

\* --------------------------------------------------------------- threads
\* unsafe impl Sync: a shared reference to the object may cross threads.
IsSync(c) == TRUE

\* Whether thread t may start fn on the object of component c: a &mut self
\* call needs the object unborrowed, a &self call needs no &mut borrow of it,
\* and a borrow shared with another thread needs the type to be Sync.
MayCall(t, c, fn) ==
    /\ IF Receiver(c, fn) = "mut"
       THEN NoBorrow(c)
       ELSE \A u \in Threads : InFlight(u, c) => Receiver(c, pc[u].fn) = "shared"
    /\ (\E u \in Threads \ {t} : InFlight(u, c)) => IsSync(c)

\* Thread t enters fn: the native call is issued with the object's handle.
BeginCall(t, c, fn) ==
    /\ Running
    /\ pc[t] = Idle
    /\ obj[c].state = "live"
    /\ fn \in Methods(c)
    /\ MayCall(t, c, fn)
    /\ pc' = [pc EXCEPT ![t] = [fn |-> fn, comp |-> c, handle |-> obj[c].handle,
                                hready |-> HandleReady(obj[c].handle)]]
    /\ hazards' = { [kind |-> "overlap", comp |-> c, fns |-> {fn, pc[u].fn}] :
                      u \in { v \in Threads : InFlight(v, c) } }
    /\ UNCHANGED <<native, obj, nextHandle, destroys, model, lastOp>>

\* The native call of thread t returns and the method runs to its end.
EndCall(t) ==
    /\ Running
    /\ pc[t] # Idle
    /\ CASE pc[t].fn = "process" -> ProcessReturn(pc[t].handle, pc[t].hready)
         [] pc[t].fn = "get_sample_rate" ->
                GetSampleRateReturn(pc[t].handle, pc[t].hready)
         [] pc[t].fn = "get_num_stems" ->
                GetNumStemsReturn(pc[t].handle, pc[t].hready)
         [] pc[t].fn = "create" -> CreateReturn(pc[t].handle, pc[t].hready)
    /\ pc' = [pc EXCEPT ![t] = Idle]
    /\ hazards' = {}
    /\ UNCHANGED <<native, obj, nextHandle, destroys, model>>

Begin ==
    \E t \in Threads, c \in Comps :
        \E fn \in Methods(c) : BeginCall(t, c, fn)
End == \E t \in Threads : EndCall(t)

\* -------------------------------------------------------- specifications
InitCommon ==
    /\ obj = [c \in Comps |-> [state |-> "none", handle |-> Null]]
    /\ nextHandle = 1
    /\ destroys = [h \in Handles |-> 0]
    /\ model = [h \in Handles |-> NoModel]
    /\ lastOp = [fn |-> "none", outcome |-> "ok"]
    /\ pc = [t \in Threads |-> Idle]
    /\ hazards = {}

Init == native = "any" /\ InitCommon
InitContract == native = "contract" /\ InitCommon

\* Two threads share one SourceSeparation and one ZipVoiceTts, both created.
InitThreads ==
    /\ native = "contract"
    /\ obj = [c \in Comps |->
                [state |-> "live", handle |-> IF c = "ss" THEN 1 ELSE 2]]
    /\ nextHandle = 3
    /\ destroys = [h \in Handles |-> 0]
    /\ model \in [Handles -> ModelChoices]
    /\ lastOp = [fn |-> "none", outcome |-> "ok"]
    /\ pc = [t \in Threads |-> Idle]
    /\ hazards = {}

Next ==
    \/ New
    \/ NewSpleeter
    \/ NewUvr
    \/ GetSampleRate
    \/ GetNumStems
    \/ Process
    \/ DropSS
    \/ TtsNew
    \/ Create
    \/ DropTts

NextThreads ==
    \/ Begin
    \/ End
    \/ DropSS
    \/ DropTts

Spec == Init /\ [][Next]_vars
SpecContract == InitContract /\ [][Next]_vars
SpecThreads == InitThreads /\ [][NextThreads]_vars

\* ---------------------------------------------------------------- claims
NativeOps == {"get_sample_rate", "get_num_stems", "process", "create"}
DestroyEvents(ev) ==
    { i \in DOMAIN ev : ev[i] \in {"destroy_result", "destroy_audio"} }
CopyEvents(ev) == { i \in DOMAIN ev : ev[i] = "copy" }

\* C1: whenever create or process, called on a ready handle, got a non-null
\* native result and returned (with a value or with an error), it called the
\* result's destroy function exactly once, after every copy of samples.
C1_ResultReleasedOnce ==
    (/\ lastOp.fn \in {"create", "process"}
     /\ lastOp.hready
     /\ ~lastOp.res.null
     /\ lastOp.outcome \in {"ok", "err"})
    => /\ Cardinality(DestroyEvents(lastOp.events)) = 1
       /\ \A i \in CopyEvents(lastOp.events), j \in DestroyEvents(lastOp.events) :
            i < j

\* C2: a native creation call that returned null is reported as an error,
\* and no live object holds a null handle.
C2_NullHandleIsCreationFailure ==
    /\ (lastOp.fn = "new" /\ lastOp.ret = Null) => lastOp.outcome = "err"
    /\ \A c \in Comps : obj[c].state = "live" => obj[c].handle # Null

\* C3: a handle the native library created has been destroyed never while
\* its owner lives and exactly once when its owner's scope has ended; no
\* handle is destroyed twice, none has two owners.
C3_HandleDestroyedOnce ==
    \A h \in Handles :
        LET owners == { c \in Comps : obj[c].state = "live" /\ obj[c].handle = h }
        IN  /\ destroys[h] <= 1
            /\ Cardinality(owners) <= 1
            /\ h >= nextHandle => (destroys[h] = 0 /\ owners = {})
            /\ h < nextHandle => (destroys[h] = 0 <=> owners # {})

\* C3's case: two handles were created one after the other and both owners'
\* scopes have ended, the second just now.
C3_Witness ==
    /\ nextHandle > 2
    /\ destroys[1] = 1
    /\ destroys[2] = 1
    /\ lastOp.fn = "drop"
    /\ lastOp.handle = 2

\* C4: every native query, process or generate call is issued with a handle
\* that was created and is not destroyed.
C4_CallsOnlyWhileReady == lastOp.fn \in NativeOps => lastOp.hready

\* C5 as stated: create on a ready handle fails exactly when the result is
\* null, the count is negative, or the sample pointer is null with a positive
\* count; so a result with count 0 is no failure whatever its sample pointer,
\* and what create then returns has no samples.
C5_FailureIffAsStated ==
    (lastOp.fn = "create" /\ lastOp.hready) =>
        /\ lastOp.outcome = "err" <=>
              (\/ lastOp.res.null
               \/ lastOp.res.n < 0
               \/ (lastOp.res.samples_null /\ lastOp.res.n > 0))
        /\ (~lastOp.res.null /\ lastOp.res.n = 0) =>
              /\ lastOp.outcome # "err"
              /\ lastOp.outcome = "ok" => lastOp.value.samples = <<>>

\* C5 amended: create fails exactly when the result is null, the count is
\* negative, or the sample pointer is null, whatever the count.
C5_FailureIff ==
    lastOp.fn = "create" =>
        (lastOp.outcome = "err" <=>
            (\/ lastOp.res.null
             \/ lastOp.res.n < 0
             \/ lastOp.res.samples_null))

\* C5's case: a result with count 0 and a null sample pointer was refused.
C5_Witness ==
    /\ lastOp.fn = "create"
    /\ lastOp.hready
    /\ ~lastOp.res.null
    /\ lastOp.res.n = 0
    /\ lastOp.res.samples_null
    /\ lastOp.outcome = "err"

\* C6: for every native result that passes create's validation, create (on
\* a ready handle) returns with the reported sample rate and with duration
\* equal to the floor of length over rate.
C6_DurationIsFloor ==
    (lastOp.fn = "create" /\ lastOp.hready /\ CreateValidate(lastOp.res) = "valid")
    => /\ lastOp.outcome = "ok"
       /\ lastOp.value.sample_rate = [hi |-> 0, lo |-> lastOp.res.sample_rate]
       /\ lastOp.res.sample_rate # 0
       /\ lastOp.value.duration =
              FloorDiv(Len(lastOp.value.samples), lastOp.res.sample_rate)

Inconsistent(res) ==
    \/ res.num_stems < 0
    \/ (res.num_stems > 0 /\ res.stems_null)
    \/ (~res.stems_null /\ res.num_stems > Len(res.stems))
    \/ (~res.stems_null /\
        \E i \in 1..Len(res.stems) :
            i <= res.num_stems /\ (res.stems[i].n < 0 \/ res.stems[i].samples_null))

\* C8: process never reads outside the native arrays, and returns an empty
\* result when the native result is inconsistent.
C8_DefensiveEmptyResult ==
    (lastOp.fn = "process" /\ ~lastOp.res.null)
    => /\ ~lastOp.ub
       /\ Inconsistent(lastOp.res) => (lastOp.outcome = "ok" /\ lastOp.value = <<>>)

\* C9: the configuration of every native create-source-separation call
\* names exactly one model family.
C9_ExactlyOneFamily ==
    (lastOp.fn = "new" /\ lastOp.comp = "ss")
    => LET cfg == lastOp.c_config
       IN  \/ (cfg.vocals # "" /\ cfg.accompaniment # "" /\ cfg.uvr_model = "")
           \/ (cfg.uvr_model # "" /\ cfg.vocals = "" /\ cfg.accompaniment = "")

\* Two threads with calls in flight on the object of one component.
Overlapping(t, u, c) == t # u /\ InFlight(t, c) /\ InFlight(u, c)
NoGenerateOverlap == \A t, u \in Threads : ~Overlapping(t, u, "tts")
NoDestroyInFlight ==
    /\ \A x \in hazards : x.kind # "drop_in_flight"
    /\ \A c \in Comps : obj[c].state = "dropped" => NoBorrow(c)

\* C10 as stated: generate calls on one handle never overlap, destroy never
\* runs under a call in flight, and the only calls that overlap on one
\* handle are process calls on a SourceSeparation.
C10_OnlyProcessOverlaps ==
    /\ NoGenerateOverlap
    /\ NoDestroyInFlight
    /\ \A t, u \in Threads, c \in Comps :
         Overlapping(t, u, c) =>
            (c = "ss" /\ pc[t].fn = "process" /\ pc[u].fn = "process")

\* C10 amended: generate calls on one handle never overlap, destroy never
\* runs under a call in flight, and the only calls that overlap on one
\* handle are the &self calls of a SourceSeparation: process,
\* get_sample_rate and get_num_stems.
C10_OnlySharedCallsOverlap ==
    /\ NoGenerateOverlap
    /\ NoDestroyInFlight
    /\ \A t, u \in Threads, c \in Comps :
         Overlapping(t, u, c) =>
            (c = "ss" /\ {pc[t].fn, pc[u].fn} \subseteq
                           {"process", "get_sample_rate", "get_num_stems"})

\* C10's case: a get_num_stems call started while a process call of another
\* thread was in flight on the shared SourceSeparation.
C10_Witness ==
    \E t, u \in Threads :
        /\ pc[t].fn = "process"
        /\ pc[u].fn = "get_num_stems"
        /\ [kind |-> "overlap", comp |-> "ss", fns |-> {"process", "get_num_stems"}]
               \in hazards

====
